---- MODULE Spec2Model ----
(***************************************************************************)
(* A model of migen/fhdl/structure.py: the Signal creation-order counter,  *)
(* Value.__getitem__, the If/Elif/Else chain, Case, and the Fragment       *)
(* merge / rename_clock_domain / get_clock_domains operations.             *)
(*                                                                         *)
(* Python objects are modelled as entries of heaps (sequences indexed by   *)
(* object identity), so that sharing of a mutable list or dict between two *)
(* owners is visible in the model.                                         *)
(***************************************************************************)
EXTENDS Integers, Sequences, FiniteSets, TLC

VARIABLES
    counter,    \* Signal._counter
    signals,    \* heap of Signal objects, in allocation order
    pc,         \* per thread: position inside Signal.__init__
    cur,        \* per thread: the Signal whose __init__ is running (0: none)
    tmp,        \* per thread: the value of Signal._counter loaded by "+= 1"
    op,         \* per thread: the constructor that called Signal.__init__
    ios,        \* Instance._IO objects built so far: [name, signal, reused]
    cds,        \* ClockDomain objects built so far: [clk, rst]
    ifs,        \* heap of If objects: [cond, t, f]
    root,       \* the If object the chained calls are made on (0: none yet)
    calls,      \* the If/Elif/Else calls made so far, with their outcomes
    item,       \* the last Value.__getitem__ call: [w, key, result]
    case,       \* the last Case(...) construction: [arms, result]
    lists,      \* heap of Python lists held by Fragments
    dicts,      \* heap of sync dicts: [dflt, map], map: key -> list identity
    frags,      \* heap of Fragment objects: identities of their containers
    insts,      \* heap of Instance objects: their items
    mems,       \* heap of Memory objects: their ports' clock_domain
    nops,       \* number of in-place changes made to Fragments so far
    ret         \* the last Fragment operation, its arguments and its result

sigvars == <<counter, signals, pc, cur, tmp, op, ios, cds>>

ifvars == <<ifs, root, calls>>

slicevars == <<item>>
casevars == <<case>>

fragvars == <<lists, dicts, frags, insts, mems, nops, ret>>

vars == <<sigvars, ifvars, slicevars, casevars, fragvars>>

notsig == <<ifvars, slicevars, casevars, fragvars>>
notif == <<sigvars, slicevars, casevars, fragvars>>
notslice == <<sigvars, ifvars, casevars, fragvars>>
notcase == <<sigvars, ifvars, slicevars, fragvars>>
notfrag == <<sigvars, ifvars, slicevars, casevars>>

\* ---------------------------------------------------------------- bounds

NThreads == 2
MaxSignals == 3
MaxIOs == 1
MaxCalls == 4
MaxWidth == 3
MaxArms == 3
MaxFragOps == 4

Threads == 1..NThreads

\* ------------------------------------------------- Signal, _IO, ClockDomain

Unset == -1

NoOp == [kind |-> "none", clk |-> 0]

\* The arguments a Signal is built from: bv (width, signed), reset, name.
\* BV(): width=1, signed=False
DefaultBV == [width |-> 1, signed |-> FALSE]
BVs == { DefaultBV, [width |-> 8, signed |-> TRUE] }
Names == {"a", "b"}

NewSignalObject(bv, name) ==
    [bv |-> bv, reset |-> 0, name |-> name, order |-> Unset]

\* Signal.__init__ up to (not including) the read of Signal._counter:
\* the object exists, its order is not assigned yet.
EnterSignalInit(t, bv, name, kind) ==
    /\ Len(signals) < MaxSignals
    /\ signals' = Append(signals, NewSignalObject(bv, name))
    /\ cur' = [cur EXCEPT ![t] = Len(signals) + 1]
    /\ pc' = [pc EXCEPT ![t] = "order"]
    /\ op' = [op EXCEPT ![t] = [kind |-> kind, clk |-> 0]]

\* Signal(bv, name)
CallSignal(t) ==
    /\ pc[t] = "idle"
    /\ \E bv \in BVs : EnterSignalInit(t, bv, "a", "sig")
    /\ UNCHANGED <<counter, tmp, ios, cds, notsig>>

\* Instance.Input/Output/InOut(name, BV): self.signal = Signal(bv, name)
CallIOFromBV(t) ==
    /\ pc[t] = "idle"
    /\ Len(ios) < MaxIOs
    /\ \E name \in Names : EnterSignalInit(t, DefaultBV, name, "io")
    /\ UNCHANGED <<counter, tmp, ios, cds, notsig>>

\* Instance.Input/Output/InOut(name, signal): self.signal = signal
CallIOFromSignal(t) ==
    /\ pc[t] = "idle"
    /\ Len(ios) < MaxIOs
    /\ \E s \in 1..Len(signals) :
          /\ signals[s].order # Unset
          /\ ios' = Append(ios, [name |-> signals[s].name, signal |-> s,
                                 reused |-> TRUE])
    /\ UNCHANGED <<counter, signals, pc, cur, tmp, op, cds, notsig>>

\* ClockDomain(n1): self.clk = Signal(...) first, self.rst = Signal(...) second
CallClockDomain(t) ==
    /\ pc[t] = "idle"
    /\ Len(signals) + 1 < MaxSignals
    /\ EnterSignalInit(t, DefaultBV, "a", "cd_clk")
    /\ UNCHANGED <<counter, tmp, ios, cds, notsig>>

\* self.order = Signal._counter
InitOrder(t) ==
    /\ pc[t] = "order"
    /\ signals' = [signals EXCEPT ![cur[t]].order = counter]
    /\ pc' = [pc EXCEPT ![t] = "load"]
    /\ UNCHANGED <<counter, cur, tmp, op, ios, cds, notsig>>

\* Signal._counter += 1, the read half
InitLoad(t) ==
    /\ pc[t] = "load"
    /\ tmp' = [tmp EXCEPT ![t] = counter]
    /\ pc' = [pc EXCEPT ![t] = "store"]
    /\ UNCHANGED <<counter, signals, cur, op, ios, cds, notsig>>

\* A counter that is written back without the increment.
MutIncremented(v) == v

\* The value "+= 1" writes back.
Incremented(v) == v + 1

\* Signal._counter += 1, the write half, and the return to the caller.
InitStore(t) ==
    /\ pc[t] = "store"
    /\ counter' = Incremented(tmp[t])
    /\ tmp' = [tmp EXCEPT ![t] = 0]
    /\ UNCHANGED notsig
    /\ CASE op[t].kind = "sig" ->
              /\ pc' = [pc EXCEPT ![t] = "idle"]
              /\ cur' = [cur EXCEPT ![t] = 0]
              /\ op' = [op EXCEPT ![t] = NoOp]
              /\ UNCHANGED <<signals, ios, cds>>
         [] op[t].kind = "io" ->
              /\ ios' = Append(ios, [name |-> signals[cur[t]].name,
                                     signal |-> cur[t], reused |-> FALSE])
              /\ pc' = [pc EXCEPT ![t] = "idle"]
              /\ cur' = [cur EXCEPT ![t] = 0]
              /\ op' = [op EXCEPT ![t] = NoOp]
              /\ UNCHANGED <<signals, cds>>
         [] op[t].kind = "cd_clk" ->
              \* self.clk is built; self.rst = Signal(...) is built next
              /\ signals' = Append(signals,
                     NewSignalObject(DefaultBV, signals[cur[t]].name))
              /\ cur' = [cur EXCEPT ![t] = Len(signals) + 1]
              /\ pc' = [pc EXCEPT ![t] = "order"]
              /\ op' = [op EXCEPT ![t] = [kind |-> "cd_rst", clk |-> cur[t]]]
              /\ UNCHANGED <<ios, cds>>
         [] op[t].kind = "cd_rst" ->
              /\ cds' = Append(cds, [clk |-> op[t].clk, rst |-> cur[t]])
              /\ pc' = [pc EXCEPT ![t] = "idle"]
              /\ cur' = [cur EXCEPT ![t] = 0]
              /\ op' = [op EXCEPT ![t] = NoOp]
              /\ UNCHANGED <<signals, ios>>

SigInit ==
    /\ counter = 0
    /\ signals = <<>>
    /\ pc = [t \in Threads |-> "idle"]
    /\ cur = [t \in Threads |-> 0]
    /\ tmp = [t \in Threads |-> 0]
    /\ op = [t \in Threads |-> NoOp]
    /\ ios = <<>>
    /\ cds = <<>>

\* ------------------------------------------------------- If, Elif, Else

\* Statements: an _Assign (told apart by id) or an If object (by identity).
AssignStmt(n) == [kind |-> "assign", id |-> n]
IfStmt(o) == [kind |-> "if", id |-> o]

Conds == {"c1", "c2"}
Bodies == { <<AssignStmt(1)>>, <<AssignStmt(1), AssignStmt(2)>> }
\* Statement lists passed to Else that hold no If object.
FlatBodies == { <<>>, <<AssignStmt(2)>>, <<AssignStmt(1), AssignStmt(2)>> }

AssertionError == 0

\* If.__init__: self.cond = cond; self.t = list(t); self.f = []
NewIfObject(cond, t) == [cond |-> cond, t |-> t, f |-> <<>>]

\* An _insert_else that does not walk the chain: it assigns obj.f.
MutWalkElse(heap, o) == o

\* The loop of _insert_else: the object whose f is empty and receives the
\* clause, or AssertionError when one of the two assertions fails.
RECURSIVE WalkElse(_, _)
WalkElse(heap, o) ==
    IF heap[o].f = <<>> THEN o
    ELSE IF Len(heap[o].f) # 1 THEN AssertionError
    ELSE IF heap[o].f[1].kind # "if" THEN AssertionError
    ELSE WalkElse(heap, heap[o].f[1].id)

\* _insert_else(obj, clause) on the heap: the heap after "o.f = clause".
InsertElse(heap, obj, clause) ==
    [heap EXCEPT ![WalkElse(heap, obj)].f = clause]

CallRecord(call, cond, body, outcome) ==
    [call |-> call, cond |-> cond, body |-> body, outcome |-> outcome]

\* If(cond, *t): the object the chain is built on.
CallIf ==
    /\ root = 0
    /\ \E c \in Conds, t \in Bodies :
          /\ ifs' = Append(ifs, NewIfObject(c, t))
          /\ root' = Len(ifs) + 1
          /\ calls' = Append(calls, CallRecord("If", c, t, Len(ifs) + 1))
    /\ UNCHANGED notif

\* root.Elif(cond, *t): _insert_else(self, [If(cond, *t)]); return self
CallElif ==
    /\ root # 0
    /\ Len(calls) < MaxCalls
    /\ \E c \in Conds, t \in Bodies :
          LET new == Len(ifs) + 1
              heap == Append(ifs, NewIfObject(c, t))
          IN  IF WalkElse(heap, root) = AssertionError
              THEN /\ calls' = Append(calls,
                          CallRecord("Elif", c, t, AssertionError))
                   /\ UNCHANGED ifs
              ELSE /\ ifs' = InsertElse(heap, root, <<IfStmt(new)>>)
                   /\ calls' = Append(calls, CallRecord("Elif", c, t, root))
    /\ UNCHANGED <<root, notif>>

\* root.Else(*f) with statements that are no If objects.
CallElse ==
    /\ root # 0
    /\ Len(calls) < MaxCalls
    /\ \E f \in FlatBodies :
          IF WalkElse(ifs, root) = AssertionError
          THEN /\ calls' = Append(calls,
                      CallRecord("Else", "none", f, AssertionError))
               /\ UNCHANGED ifs
          ELSE /\ ifs' = InsertElse(ifs, root, f)
               /\ calls' = Append(calls, CallRecord("Else", "none", f, root))
    /\ UNCHANGED <<root, notif>>

\* root.Else(If(cond, *t)): the statement list is one freshly built If.
CallElseIf ==
    /\ root # 0
    /\ Len(calls) < MaxCalls
    /\ \E c \in Conds, t \in Bodies :
          LET new == Len(ifs) + 1
              heap == Append(ifs, NewIfObject(c, t))
          IN  IF WalkElse(heap, root) = AssertionError
              THEN /\ calls' = Append(calls,
                          CallRecord("Else", "none", <<IfStmt(new)>>,
                                     AssertionError))
                   /\ UNCHANGED ifs
              ELSE /\ ifs' = InsertElse(heap, root, <<IfStmt(new)>>)
                   /\ calls' = Append(calls,
                          CallRecord("Else", "none", <<IfStmt(new)>>, root))
    /\ UNCHANGED <<root, notif>>

IfInit ==
    /\ ifs = <<>>
    /\ root = 0
    /\ calls = <<>>

\* ------------------------------------------------------ Value.__getitem__

\* An optional integer: None, or an int.
None == [some |-> FALSE, v |-> 0]
Some(n) == [some |-> TRUE, v |-> n]

\* Python's "x or d" for an optional integer x: d when x is None or 0.
PyOr(x, d) == IF x.some /\ x.v # 0 THEN x.v ELSE d

KeyError == [kind |-> "KeyError", start |-> 0, stop |-> 0]
SliceObject(start, stop) == [kind |-> "_Slice", start |-> start, stop |-> stop]

\* The stop of e[a:b] on a value of len w: "key.stop or len(self)", then
\* lowered to len(self) when it is larger.
SliceStop(w, stop) ==
    LET s == PyOr(stop, w) IN IF s > w THEN w ELSE s

\* Value.__getitem__(self, key) for a value with len(self) = w.
GetItem(w, key) ==
    IF key.kind = "int" THEN SliceObject(key.i, key.i + 1)
    ELSE IF key.kind = "slice"
         THEN IF key.step.some THEN KeyError
              ELSE SliceObject(PyOr(key.start, 0), SliceStop(w, key.stop))
    ELSE KeyError

Widths == 1..MaxWidth
Ints == (0 - MaxWidth - 1)..(MaxWidth + 1)
OptInts == {None} \cup {Some(n) : n \in Ints}
Steps == {None, Some(1), Some(2)}

IntKey(i) == [kind |-> "int", i |-> i]
SliceKey(a, b, st) == [kind |-> "slice", start |-> a, stop |-> b, step |-> st]
OtherKey == [kind |-> "other"]

\* e[i]
CallGetItemInt ==
    /\ \E w \in Widths, i \in Ints :
          item' = [w |-> w, key |-> IntKey(i), result |-> GetItem(w, IntKey(i))]
    /\ UNCHANGED notslice

\* e[a:b] and e[a:b:step]
CallGetItemSlice ==
    /\ \E w \in Widths, a \in OptInts, b \in OptInts, st \in Steps :
          item' = [w |-> w, key |-> SliceKey(a, b, st),
                   result |-> GetItem(w, SliceKey(a, b, st))]
    /\ UNCHANGED notslice

\* e[key] for a key that is neither an int nor a slice
CallGetItemOther ==
    /\ \E w \in Widths :
          item' = [w |-> w, key |-> OtherKey, result |-> GetItem(w, OtherKey)]
    /\ UNCHANGED notslice

SliceInit == item = [w |-> 1, key |-> OtherKey, result |-> KeyError]

\* -------------------------------------------------------------------- Case

ValueError == [kind |-> "ValueError", cases |-> <<>>, default |-> <<>>]

\* An arm of Case: (Default(), *stmts) or (constant, *stmts).
DefaultArm(body) == [default |-> TRUE, val |-> 0, body |-> body]
MatchArm(val, body) == [default |-> FALSE, val |-> val, body |-> body]

ArmBodies == { <<>>, <<AssignStmt(1)>> }
Arms == {DefaultArm(b) : b \in ArmBodies}
           \cup {MatchArm(v, b) : v \in {1, 2}, b \in ArmBodies}

\* self.cases: the arms whose c[0] is no Default, as (c[0], list(c[1:])).
RECURSIVE CaseArms(_)
CaseArms(arms) ==
    IF arms = <<>> THEN <<>>
    ELSE IF Head(arms).default THEN CaseArms(Tail(arms))
    ELSE <<[val |-> Head(arms).val, body |-> Head(arms).body]>>
            \o CaseArms(Tail(arms))

\* A truthiness test "if self.default:" in place of "is not None".
MutDefaultIsSet(d) == d.some /\ d.v # <<>>

\* "self.default is not None", self.default being None or a list.
DefaultIsSet(d) == d.some

\* The loop over the arms that sets self.default, from the value d it has
\* so far: the final self.default, or ValueError.
RECURSIVE CaseDefault(_, _)
CaseDefault(arms, d) ==
    IF arms = <<>> THEN d
    ELSE IF Head(arms).default
         THEN IF DefaultIsSet(d) THEN ValueError
              ELSE CaseDefault(Tail(arms), Some(Head(arms).body))
    ELSE CaseDefault(Tail(arms), d)

\* Case.__init__(self, test, *cases)
NewCase(arms) ==
    LET d == CaseDefault(arms, None)
    IN  IF d = ValueError THEN ValueError
        ELSE [kind |-> "Case", cases |-> CaseArms(arms),
              default |-> IF d.some THEN d.v ELSE <<>>]

RECURSIVE SeqsUpTo(_, _)
SeqsUpTo(S, n) ==
    IF n = 0 THEN {<<>>}
    ELSE LET shorter == SeqsUpTo(S, n - 1)
         IN  shorter \cup {Append(q, x) : q \in shorter, x \in S}

CallCase ==
    /\ \E arms \in SeqsUpTo(Arms, MaxArms) :
          case' = [arms |-> arms, result |-> NewCase(arms)]
    /\ UNCHANGED notcase

CaseInit == case = [arms |-> <<>>, result |-> NewCase(<<>>)]

\* ---------------------------------------------------------------- Fragment

\* Clock-domain names, in the order list identities are handed out in.
DomainSeq == <<"sys", "old", "new">>
DomainNames == {DomainSeq[i] : i \in 1..Len(DomainSeq)}

\* Instance items: Input/Output/InOut, Parameter, ClockPort, ResetPort.
IOItem(kind, name) == [kind |-> kind, name |-> name, domain |-> "none"]
CRItem(kind, name, domain) == [kind |-> kind, name |-> name, domain |-> domain]

\* An isinstance test against Instance.ClockPort only.
MutIsCR(x) == x.kind = "ClockPort"

\* isinstance(x, Instance._CR)
IsCR(x) == x.kind \in {"ClockPort", "ResetPort"}

Keys(ds, d) == DOMAIN ds[d].map

\* The keys of a sync dict as a sequence, in DomainSeq order.
KeySeq(K) == SelectSeq(DomainSeq, LAMBDA k : k \in K)
KeyIndex(K, k) == CHOOSE n \in 1..Len(KeySeq(K)) : KeySeq(K)[n] = k

Restrict(m, K) == [k \in K |-> m[k]]

\* What the containers of Fragment f hold: list contents in place of list
\* identities.
ViewOf(fr, ls, ds, f) ==
    [comb |-> ls[fr[f].comb],
     sync |-> [k \in Keys(ds, fr[f].sync) |-> ls[ds[fr[f].sync].map[k]]],
     instances |-> ls[fr[f].instances],
     memories |-> ls[fr[f].memories],
     sim |-> ls[fr[f].sim]]

\* Arguments of Fragment(...): each None (absent) or a container; sync is a
\* bare statement list or a dict.
NoArg == [given |-> FALSE]
ListArg(l) == [given |-> TRUE, kind |-> "list", v |-> l]
DictArg(m) == [given |-> TRUE, kind |-> "dict", v |-> m]

Templates == {
    [comb |-> ListArg(<<1>>), sync |-> ListArg(<<2>>),
     instances |-> ListArg(<<1>>), memories |-> NoArg, sim |-> ListArg(<<7>>)],
    [comb |-> NoArg, sync |-> DictArg("sys" :> <<4>> @@ "old" :> <<>>),
     instances |-> ListArg(<<2>>), memories |-> ListArg(<<1>>), sim |-> NoArg],
    [comb |-> ListArg(<<3>>), sync |-> NoArg,
     instances |-> NoArg, memories |-> NoArg, sim |-> NoArg] }

\* "if x is None: x = []"
ListOrEmpty(arg) == IF arg.given THEN arg.v ELSE <<>>

\* The sync dict Fragment.__init__ stores, as key -> statement list:
\* dict() for None, {"sys": sync} for a list.
SyncOf(arg) ==
    IF ~arg.given THEN <<>>
    ELSE IF arg.kind = "list" THEN ("sys" :> arg.v)
    ELSE arg.v

NoRet == [op |-> "none", f |-> 0, a |-> 0, b |-> 0, key |-> "none",
          old |-> "none", new |-> "none", outcome |-> "ok", val |-> {}]

\* Fragment(comb, sync, instances, memories, sim) on containers built for
\* the call.
NewFragment ==
    /\ Len(frags) + nops < MaxFragOps
    /\ \E tpl \in Templates :
          LET base == Len(lists)
              sync == SyncOf(tpl.sync)
              K == DOMAIN sync
              ks == KeySeq(K)
          IN  /\ lists' = lists \o <<ListOrEmpty(tpl.comb),
                                     ListOrEmpty(tpl.instances),
                                     ListOrEmpty(tpl.memories),
                                     ListOrEmpty(tpl.sim)>>
                                \o [n \in 1..Len(ks) |-> sync[ks[n]]]
              /\ dicts' = Append(dicts,
                     [dflt |-> FALSE,
                      map |-> [k \in K |-> base + 4 + KeyIndex(K, k)]])
              /\ frags' = Append(frags,
                     [comb |-> base + 1, instances |-> base + 2,
                      memories |-> base + 3, sim |-> base + 4,
                      sync |-> Len(dicts) + 1, from |-> <<>>])
              /\ ret' = [NoRet EXCEPT !.op = "new", !.f = Len(frags) + 1]
    /\ UNCHANGED <<insts, mems, nops, notfrag>>

\* Concatenation in the reverse order.
MutConcat(x, y) == y \o x

\* self.comb + other.comb (and likewise instances, memories, sim), and
\* newsync[k] after "newsync[k] = v[:]" and "newsync[k].extend(v)".
Concat(x, y) == x \o y

\* "newsync[k] = v" without the copy: newsync[k] is the operand's own list.
MutSyncTarget(ma, k, fresh) == IF k \in DOMAIN ma THEN ma[k] ELSE fresh

\* The list newsync[k] denotes: the copy v[:] of self.sync[k], or the list
\* the defaultdict creates for a key of other.sync only; a new list either way.
SyncTarget(ma, k, fresh) == fresh

\* Fragment.__add__(self, other), self = frags[a], other = frags[b].
Merge(a, b) ==
    LET fa == frags[a]
        fb == frags[b]
        ma == dicts[fa.sync].map
        mb == dicts[fb.sync].map
        K == DOMAIN ma \cup DOMAIN mb
        ks == KeySeq(K)
        base == Len(lists)
        target(k) == SyncTarget(ma, k, base + 4 + KeyIndex(K, k))
        \* after the first loop, and with the four concatenated lists
        first(l) ==
            IF l <= base THEN lists[l]
            ELSE IF l = base + 1 THEN Concat(lists[fa.comb], lists[fb.comb])
            ELSE IF l = base + 2
                 THEN Concat(lists[fa.instances], lists[fb.instances])
            ELSE IF l = base + 3
                 THEN Concat(lists[fa.memories], lists[fb.memories])
            ELSE IF l = base + 4 THEN Concat(lists[fa.sim], lists[fb.sim])
            ELSE LET k == ks[l - base - 4]
                 IN  IF k \in DOMAIN ma THEN lists[ma[k]] ELSE <<>>
        \* the second loop: newsync[k].extend(v) for the keys of other.sync
        second(l) ==
            IF \E k \in DOMAIN mb : target(k) = l
            THEN LET k == CHOOSE k \in DOMAIN mb : target(k) = l
                 IN  Concat(first(l), first(mb[k]))
            ELSE first(l)
    IN  /\ lists' = [l \in 1..(base + 4 + Len(ks)) |-> second(l)]
        /\ dicts' = Append(dicts, [dflt |-> TRUE,
                                   map |-> [k \in K |-> target(k)]])
        /\ frags' = Append(frags,
               [comb |-> base + 1, instances |-> base + 2,
                memories |-> base + 3, sim |-> base + 4,
                sync |-> Len(dicts) + 1, from |-> <<a, b>>])
        /\ ret' = [NoRet EXCEPT !.op = "merge", !.f = Len(frags) + 1,
                                !.a = a, !.b = b]

CallMerge ==
    /\ Len(frags) + nops < MaxFragOps
    /\ \E a, b \in 1..Len(frags) : Merge(a, b)
    /\ UNCHANGED <<insts, mems, nops, notfrag>>

\* The items of an Instance, the ports of a Memory, with clock domain old
\* rewritten to new.
RenameItems(items, old, new) ==
    [j \in 1..Len(items) |->
        IF IsCR(items[j]) /\ items[j].domain = old
        THEN [items[j] EXCEPT !.domain = new]
        ELSE items[j]]

RenamePorts(ports, old, new) ==
    [j \in 1..Len(ports) |-> IF ports[j] = old THEN new ELSE ports[j]]

InList(l, x) == \E n \in 1..Len(l) : l[n] = x

\* The two loops of rename_clock_domain over self.instances and
\* self.memories.
RenameInstancesAndMemories(f, old, new) ==
    /\ insts' = [i \in 1..Len(insts) |->
                    IF InList(lists[frags[f].instances], i)
                    THEN RenameItems(insts[i], old, new) ELSE insts[i]]
    /\ mems' = [m \in 1..Len(mems) |->
                   IF InList(lists[frags[f].memories], m)
                   THEN RenamePorts(mems[m], old, new) ELSE mems[m]]

\* Fragment.rename_clock_domain(self, old, new), self = frags[f]:
\*   self.sync["new"] = self.sync["old"]; del self.sync["old"]
\* with the quoted keys, then the two loops with the parameters.
Rename(f, old, new) ==
    LET d == frags[f].sync
        m == dicts[d].map
        moved(l) == Restrict([k \in DOMAIN m \cup {"new"} |->
                                 IF k = "new" THEN l ELSE m[k]],
                             (DOMAIN m \cup {"new"}) \ {"old"})
        result(outcome) == [NoRet EXCEPT !.op = "rename", !.f = f, !.old = old,
                                         !.new = new, !.outcome = outcome]
    IN  IF "old" \in DOMAIN m
        THEN /\ dicts' = [dicts EXCEPT ![d].map = moved(m["old"])]
             /\ RenameInstancesAndMemories(f, old, new)
             /\ ret' = result("ok")
             /\ UNCHANGED lists
        ELSE IF dicts[d].dflt
        THEN \* a defaultdict creates self.sync["old"] when it is read
             /\ lists' = Append(lists, <<>>)
             /\ dicts' = [dicts EXCEPT ![d].map = moved(Len(lists) + 1)]
             /\ RenameInstancesAndMemories(f, old, new)
             /\ ret' = result("ok")
        ELSE \* a dict raises KeyError before anything is changed
             /\ ret' = result("KeyError")
             /\ UNCHANGED <<lists, dicts, insts, mems>>

CallRename ==
    /\ Len(frags) + nops < MaxFragOps
    /\ \E f \in 1..Len(frags), old \in DomainNames, new \in DomainNames :
          Rename(f, old, new)
    /\ nops' = nops + 1
    /\ UNCHANGED <<frags, notfrag>>

\* Fragment.get_clock_domains(self), self = frags[f].
GetClockDomains(f) ==
    LET il == lists[frags[f].instances]
        ml == lists[frags[f].memories]
    IN  Keys(dicts, frags[f].sync)
           \cup {insts[il[i]][j].domain :
                    <<i, j>> \in {p \in (1..Len(il)) \X (1..3) :
                                     /\ p[2] <= Len(insts[il[p[1]]])
                                     /\ IsCR(insts[il[p[1]]][p[2]])}}
           \cup UNION {{mems[ml[i]][j] : j \in 1..Len(mems[ml[i]])} :
                          i \in 1..Len(ml)}

CallGetClockDomains ==
    /\ \E f \in 1..Len(frags) :
          ret' = [NoRet EXCEPT !.op = "get_clock_domains", !.f = f,
                               !.val = GetClockDomains(f)]
    /\ UNCHANGED <<lists, dicts, frags, insts, mems, nops, notfrag>>

\* In-place changes the host makes to a container of a Fragment.
ListFields == {"comb", "instances", "memories", "sim"}
FieldList(f, field) ==
    CASE field = "comb" -> frags[f].comb
      [] field = "instances" -> frags[f].instances
      [] field = "memories" -> frags[f].memories
      [] field = "sim" -> frags[f].sim

\* f.comb.append(x), f.instances.append(x), ...
AppendToList ==
    /\ Len(frags) + nops < MaxFragOps
    /\ \E f \in 1..Len(frags), field \in ListFields :
          /\ lists' = [lists EXCEPT ![FieldList(f, field)] = Append(@, 1)]
          /\ ret' = [NoRet EXCEPT !.op = "append", !.f = f, !.key = field]
    /\ nops' = nops + 1
    /\ UNCHANGED <<dicts, frags, insts, mems, notfrag>>

\* f.sync[k].append(x) for a key k of f.sync
AppendToSync ==
    /\ Len(frags) + nops < MaxFragOps
    /\ \E f \in 1..Len(frags) : \E k \in Keys(dicts, frags[f].sync) :
          /\ lists' = [lists EXCEPT ![dicts[frags[f].sync].map[k]] =
                                       Append(@, 9)]
          /\ ret' = [NoRet EXCEPT !.op = "append_sync", !.f = f, !.key = k]
    /\ nops' = nops + 1
    /\ UNCHANGED <<dicts, frags, insts, mems, notfrag>>

\* f.sync[k] = [] for a name k that is no key of f.sync
AddSyncKey ==
    /\ Len(frags) + nops < MaxFragOps
    /\ \E f \in 1..Len(frags) :
       \E k \in DomainNames \ Keys(dicts, frags[f].sync) :
          LET d == frags[f].sync
          IN  /\ lists' = Append(lists, <<>>)
              /\ dicts' = [dicts EXCEPT ![d].map =
                     [j \in DOMAIN dicts[d].map \cup {k} |->
                         IF j = k THEN Len(lists) + 1 ELSE dicts[d].map[j]]]
              /\ ret' = [NoRet EXCEPT !.op = "add_key", !.f = f, !.key = k]
    /\ nops' = nops + 1
    /\ UNCHANGED <<frags, insts, mems, notfrag>>

\* del f.sync[k] for a key k of f.sync
DelSyncKey ==
    /\ Len(frags) + nops < MaxFragOps
    /\ \E f \in 1..Len(frags) : \E k \in Keys(dicts, frags[f].sync) :
          LET d == frags[f].sync
          IN  /\ dicts' = [dicts EXCEPT ![d].map =
                     Restrict(dicts[d].map, DOMAIN dicts[d].map \ {k})]
              /\ ret' = [NoRet EXCEPT !.op = "del_key", !.f = f, !.key = k]
    /\ nops' = nops + 1
    /\ UNCHANGED <<lists, frags, insts, mems, notfrag>>

\* The Instance and Memory objects the Fragments are built from.
FragInit ==
    /\ lists = <<>>
    /\ dicts = <<>>
    /\ frags = <<>>
    /\ insts = << <<IOItem("Input", "sys"),
                    CRItem("ClockPort", "clk", "sys"),
                    CRItem("ResetPort", "rst", "new")>>,
                  <<IOItem("Parameter", "old"),
                    CRItem("ResetPort", "rst", "old")>> >>
    /\ mems = << <<"sys", "old">> >>
    /\ nops = 0
    /\ ret = NoRet

\* ------------------------------------------------------------ specifications

Init == SigInit /\ IfInit /\ SliceInit /\ CaseInit /\ FragInit

ThreadStep(t) ==
    \/ CallSignal(t)
    \/ CallIOFromBV(t)
    \/ CallIOFromSignal(t)
    \/ CallClockDomain(t)
    \/ InitOrder(t)
    \/ InitLoad(t)
    \/ InitStore(t)

\* Signals are built from several threads.
NextThreads == \E t \in Threads : ThreadStep(t)
SpecThreads == Init /\ [][NextThreads]_vars

\* Signals are built from one thread only.
NextSeq == ThreadStep(1)
SpecSeq == Init /\ [][NextSeq]_vars

\* One If chain is built by chained calls.
NextIf == CallIf \/ CallElif \/ CallElse \/ CallElseIf
SpecIf == Init /\ [][NextIf]_vars

\* Values are indexed and sliced.
NextSlice == CallGetItemInt \/ CallGetItemSlice \/ CallGetItemOther
SpecSlice == Init /\ [][NextSlice]_vars

\* Case statements are constructed.
NextCase == CallCase
SpecCase == Init /\ [][NextCase]_vars

\* Fragments are built and merged, and their containers changed in place.
NextMerge ==
    \/ NewFragment
    \/ CallMerge
    \/ AppendToList
    \/ AppendToSync
    \/ AddSyncKey
    \/ DelSyncKey
SpecMerge == Init /\ [][NextMerge]_vars

\* Fragments are built, merged, renamed and asked for their clock domains.
NextRename ==
    \/ NewFragment
    \/ CallMerge
    \/ CallRename
    \/ CallGetClockDomains
SpecRename == Init /\ [][NextRename]_vars

\* ------------------------------------------------------------------ claims

\* C6: when Signal constructions from several threads interleave, no two
\* Signals receive the same creation-order index, and the counter loses no
\* increment (once every construction has returned, it counts the Signals).
C6_UniqueOrderNoLostIncrement ==
    /\ \A i, j \in 1..Len(signals) :
          (i # j /\ signals[i].order # Unset /\ signals[j].order # Unset)
             => signals[i].order # signals[j].order
    /\ (\A t \in Threads : pc[t] = "idle") => counter = Len(signals)

\* Every Signal built before another has the smaller creation-order index.
C7_Ordered ==
    \A i, j \in 1..Len(signals) :
       (i < j /\ signals[i].order # Unset /\ signals[j].order # Unset)
          => signals[i].order < signals[j].order

\* A step that binds an existing Signal to an _IO allocates no index.
C7_ReuseAllocatesNothing ==
    (Len(ios') = Len(ios) + 1 /\ ios'[Len(ios')].reused)
       => (counter' = counter /\ signals' = signals)

\* C7: over a single-threaded sequence of Signal(...), _IO-from-BV and
\* ClockDomain constructions every Signal gets an index strictly greater than
\* that of every Signal created before it (so indices are pairwise distinct,
\* also for Signals with identical attributes), and binding an existing
\* Signal allocates no index.
C7_StrictlyIncreasingOrder ==
    []C7_Ordered /\ [][C7_ReuseAllocatesNothing]_vars

\* C7's case: a ClockDomain (clk then rst, identical attributes) and one more
\* Signal have been built, and an _IO reuses an existing Signal.
C7_Witness ==
    /\ Len(signals) = 3
    /\ \A i \in 1..3 : signals[i].order # Unset
    /\ Len(cds) = 1
    /\ signals[cds[1].clk].bv = signals[cds[1].rst].bv
    /\ signals[cds[1].clk].name = signals[cds[1].rst].name
    /\ Len(ios) = 1 /\ ios[1].reused

\* C4: once Else(body) with a non-empty body has filled the terminal slot,
\* every later Else or Elif call on the chain ends in an assertion failure.
C4_FilledChainRejectsAttach ==
    \A i, j \in 1..Len(calls) :
       (/\ i < j
        /\ calls[i].call = "Else"
        /\ calls[i].outcome # AssertionError
        /\ calls[i].body # <<>>)
          => calls[j].outcome = AssertionError

\* The calls so far are If(c0, t0).Elif(c1, t1)...Elif(ck, tk), optionally
\* followed by one Else(body).
ChainCalls ==
    /\ Len(calls) >= 1
    /\ \A i \in 2..Len(calls) :
          \/ calls[i].call = "Elif"
          \/ calls[i].call = "Else" /\ i = Len(calls)

NumElif == Cardinality({i \in 1..Len(calls) : calls[i].call = "Elif"})

\* The objects reached from o through at most n single-If false-branches.
RECURSIVE ChainFrom(_, _)
ChainFrom(o, n) ==
    IF n > 0 /\ Len(ifs[o].f) = 1 /\ ifs[o].f[1].kind = "if"
    THEN <<o>> \o ChainFrom(ifs[o].f[1].id, n - 1)
    ELSE <<o>>

\* C10: after If(c0, t0).Elif(c1, t1)...Elif(ck, tk) and an optional final
\* Else(body), the objects form a chain through the false-branch slot: the
\* object at depth i has condition ci and true-branch ti, every non-terminal
\* false-branch holds exactly one If, the terminal false-branch is body (empty
\* without Else), and every call returned the outermost If.
C10_ElifElseChain ==
    ChainCalls =>
       LET k == NumElif
           chain == ChainFrom(root, k)
           last == calls[Len(calls)]
       IN  /\ Len(chain) = k + 1
           /\ \A i \in 1..Len(chain) :
                 /\ ifs[chain[i]].cond = calls[i].cond
                 /\ ifs[chain[i]].t = calls[i].body
           /\ \A i \in 1..(Len(chain) - 1) :
                 ifs[chain[i]].f = <<IfStmt(chain[i + 1])>>
           /\ ifs[chain[Len(chain)]].f =
                 (IF last.call = "Else" THEN last.body ELSE <<>>)
           /\ \A i \in 1..Len(calls) : calls[i].outcome = root

\* C10's case: two Elif calls with different conditions, then an Else with
\* a non-empty body.
C10_Witness ==
    /\ ChainCalls
    /\ Len(calls) = 4
    /\ calls[2].call = "Elif" /\ calls[3].call = "Elif"
    /\ calls[2].cond # calls[3].cond
    /\ calls[4].call = "Else" /\ calls[4].body # <<>>

\* C5: whenever e[key] returns a Slice of a value of width w, it satisfies
\* 0 <= start <= stop <= w; a requested stop greater than w is clamped to w;
\* and a slice key with a step raises an error instead of returning a Slice.
C5_SliceWithinWidth ==
    /\ item.result.kind = "_Slice"
          => /\ 0 <= item.result.start
             /\ item.result.start <= item.result.stop
             /\ item.result.stop <= item.w
    /\ (/\ item.key.kind = "slice"
        /\ ~item.key.step.some
        /\ item.key.stop.some
        /\ item.key.stop.v > item.w)
          => (item.result.kind = "_Slice" /\ item.result.stop = item.w)
    /\ (item.key.kind = "slice" /\ item.key.step.some)
          => item.result = KeyError

NumDefault(arms) == Cardinality({i \in 1..Len(arms) : arms[i].default})

IsMatchArm(a) == ~a.default

\* The non-default arms, in their supplied relative order.
MatchArmsOf(arms) ==
    LET sel == SelectSeq(arms, IsMatchArm)
    IN  [i \in 1..Len(sel) |-> [val |-> sel[i].val, body |-> sel[i].body]]

\* C9: two or more Default arms make the construction fail (also when a
\* default arm's body is empty); with exactly one Default arm, wherever it
\* stands, the result has exactly the other arms in their supplied order plus
\* the default arm's statement list; with none, the default list is empty.
C9_CaseDefault ==
    LET arms == case.arms
        r == case.result
    IN  /\ NumDefault(arms) >= 2 => r = ValueError
        /\ NumDefault(arms) = 1 =>
              /\ r.kind = "Case"
              /\ r.cases = MatchArmsOf(arms)
              /\ Len(r.cases) = Len(arms) - 1
              /\ r.default =
                    arms[CHOOSE i \in 1..Len(arms) : arms[i].default].body
        /\ NumDefault(arms) = 0 =>
              /\ r.kind = "Case"
              /\ r.cases = MatchArmsOf(arms)
              /\ Len(r.cases) = Len(arms)
              /\ r.default = <<>>

\* C9's case: one Default arm standing between two match arms.
C9_Witness ==
    /\ Len(case.arms) = 3
    /\ ~case.arms[1].default /\ case.arms[2].default /\ ~case.arms[3].default
    /\ case.arms[1].val # case.arms[3].val
    /\ case.arms[2].body # <<>>
    /\ case.result.kind = "Case"

\* The step is a merge: Fragment ret'.f is ret'.a + ret'.b.
MergeStep == Len(frags') = Len(frags) + 1 /\ ret'.op = "merge"

\* s[k] for a key of the sync view s, the empty list when k is absent.
SyncOrEmpty(s, k) == IF k \in DOMAIN s THEN s[k] ELSE <<>>

C2_MergeStep ==
    MergeStep =>
       LET f1 == ViewOf(frags, lists, dicts, ret'.a)
           f2 == ViewOf(frags, lists, dicts, ret'.b)
           r == ViewOf(frags', lists', dicts', ret'.f)
       IN  /\ r.comb = f1.comb \o f2.comb
           /\ r.instances = f1.instances \o f2.instances
           /\ r.memories = f1.memories \o f2.memories
           /\ r.sim = f1.sim \o f2.sim
           /\ DOMAIN r.sync = DOMAIN f1.sync \cup DOMAIN f2.sync
           /\ \A k \in DOMAIN r.sync :
                 r.sync[k] = SyncOrEmpty(f1.sync, k) \o SyncOrEmpty(f2.sync, k)

\* C2: f1 + f2 is left-then-right concatenation: comb, instances, memories
\* and sim are f1's list followed by f2's, nothing reordered or dropped; the
\* sync keys are the union of both key sets; and each sync[k] is f1.sync[k]
\* (empty if absent) followed by f2.sync[k] (empty if absent).
C2_MergeConcatenates == [][C2_MergeStep]_vars

\* C2's case: a Fragment merged with itself (its lists doubled, nothing
\* de-duplicated) has been merged again with a Fragment that brings a sync
\* key of its own.
C2_Witness ==
    /\ ret.op = "merge"
    /\ ret.a # ret.b
    /\ frags[ret.a].from # <<>>
    /\ frags[ret.a].from[1] = frags[ret.a].from[2]
    /\ lists[frags[ret.a].comb] # <<>>
    /\ Keys(dicts, frags[ret.b].sync) \ Keys(dicts, frags[ret.a].sync) # {}

\* The step changes a container of Fragment ret'.f in place.
ChangeStep ==
    /\ nops' = nops + 1
    /\ ret'.op \in {"append", "append_sync", "add_key", "del_key"}

C3_Step ==
    /\ MergeStep =>
          \A f \in 1..Len(frags) :
             ViewOf(frags', lists', dicts', f) = ViewOf(frags, lists, dicts, f)
    /\ (ChangeStep /\ frags[ret'.f].from # <<>>) =>
          \A g \in {frags[ret'.f].from[1], frags[ret'.f].from[2]} :
             ViewOf(frags', lists', dicts', g) = ViewOf(frags, lists, dicts, g)

\* C3: a merge leaves the comb, sync, instances, memories and sim containers
\* of its operands (and of every other Fragment) as they were, and no later
\* in-place change to a container of the result r = f1 + f2 (appending to a
\* list or to r.sync[k], adding or removing a sync key) changes a container
\* of f1 or f2, however many merges have been made.
C3_MergeDoesNotAlias == [][C3_Step]_vars

\* C3's case: a statement has been appended to r.sync[k] of a merge result r
\* for a key k that came only from the right operand.
C3_Witness ==
    /\ ret.op = "append_sync"
    /\ frags[ret.f].from # <<>>
    /\ ret.key \notin Keys(dicts, frags[frags[ret.f].from[1]].sync)
    /\ ret.key \in Keys(dicts, frags[frags[ret.f].from[2]].sync)

\* Every name that can occur as a clock domain or in an item of an Instance.
AllNames == DomainNames \cup {"none", "clk", "rst"}

\* C8: get_clock_domains() returns exactly the names that are a key of
\* f.sync (also one with an empty statement list), the domain of a ClockPort
\* or ResetPort item of an Instance of f.instances, or the clock_domain of a
\* port of a Memory of f.memories; no other name, and nothing from Input,
\* Output, InOut or Parameter items.
C8_ClockDomainsExact ==
    ret.op = "get_clock_domains" =>
       LET f == frags[ret.f]
           il == lists[f.instances]
           ml == lists[f.memories]
       IN  \A d \in AllNames \cup ret.val :
              d \in ret.val <=>
                \/ d \in DOMAIN dicts[f.sync].map
                \/ \E i \in 1..Len(il) : \E j \in 1..Len(insts[il[i]]) :
                      /\ insts[il[i]][j].kind \in {"ClockPort", "ResetPort"}
                      /\ insts[il[i]][j].domain = d
                \/ \E i \in 1..Len(ml) : \E j \in 1..Len(mems[ml[i]]) :
                      mems[ml[i]][j] = d

\* C8's case: the clock domains of a merged Fragment that has a sync key with
\* an empty statement list, a ResetPort whose domain is no sync key, an Input
\* item and a Memory.
C8_Witness ==
    /\ ret.op = "get_clock_domains"
    /\ frags[ret.f].from # <<>>
    /\ \E k \in Keys(dicts, frags[ret.f].sync) :
          lists[dicts[frags[ret.f].sync].map[k]] = <<>>
    /\ lists[frags[ret.f].memories] # <<>>
    /\ \E i \in 1..Len(lists[frags[ret.f].instances]) :
          LET items == insts[lists[frags[ret.f].instances][i]]
          IN  /\ \E j \in 1..Len(items) : items[j].kind = "Input"
              /\ \E j \in 1..Len(items) :
                    /\ items[j].kind = "ResetPort"
                    /\ items[j].domain \notin Keys(dicts, frags[ret.f].sync)

\* The step is f.rename_clock_domain(old, new) for f = ret'.f.
RenameStep == nops' = nops + 1 /\ ret'.op = "rename"

C1_Step ==
    LET f == ret'.f
        old == ret'.old
        new == ret'.new
        m == dicts[frags[f].sync].map
        m2 == dicts'[frags[f].sync].map
    IN  (RenameStep /\ old \in DOMAIN m /\ new \notin DOMAIN m) =>
           /\ ret'.outcome = "ok"
           /\ DOMAIN m2 = (DOMAIN m \ {old}) \cup {new}
           /\ lists'[m2[new]] = lists[m[old]]
           /\ \A k \in DOMAIN m \ {old} : lists'[m2[k]] = lists[m[k]]
           /\ \A n \in 1..Len(lists[frags[f].instances]) :
                 LET i == lists[frags[f].instances][n]
                 IN  \A j \in 1..Len(insts[i]) :
                        insts'[i][j] =
                           IF /\ insts[i][j].kind \in {"ClockPort", "ResetPort"}
                              /\ insts[i][j].domain = old
                           THEN [insts[i][j] EXCEPT !.domain = new]
                           ELSE insts[i][j]
           /\ \A n \in 1..Len(lists[frags[f].memories]) :
                 LET q == lists[frags[f].memories][n]
                 IN  \A j \in 1..Len(mems[q]) :
                        mems'[q][j] = IF mems[q][j] = old THEN new
                                      ELSE mems[q][j]

\* C1: after f.rename_clock_domain(old, new) with old a key of f.sync (and
\* new none), the statement list that was stored under old is stored under
\* new, old is no key any more, every ClockPort/ResetPort binding and Memory
\* port of f whose domain was old has domain new, and every other sync
\* entry, binding and port is unchanged.
C1_RenameMovesDomain == [][C1_Step]_vars

====
